---- MODULE Spec2Model ----
(***************************************************************************)
(* Model of the analyzr settings front end:                                *)
(*   - hooks/useUser.ts      : the session hook (one-shot getUser() plus   *)
(*                             the onAuthStateChange subscription)         *)
(*   - app/settings/page.tsx : the settings page (getUserData,             *)
(*                             generateApiKey, updateDiscordId) and the    *)
(*                             "users" table it reads and writes.          *)
(* Every awaited call is split in two steps: the step that issues the      *)
(* request (the code up to the await) and the step that handles the        *)
(* response (the code after the await).  State setters are modelled as     *)
(* writes to the state cell they belong to.                                *)
(***************************************************************************)
EXTENDS Naturals, FiniteSets, Sequences, Bags, TLC

\* ---------------------------------------------------------------- bounds
MaxInflight == 2

\* ------------------------------------------------------------ value sets
Null == "null"
Ids == {"u1", "u2"}
Keys == {"k1", "k2"}
DiscordIds == {"", "d1"}

VARIABLES
    \* hooks/useUser.ts
    user, hookLoading, checkUserPc, released, feedSeen,
    \* app/settings/page.tsx
    apiKey, discordId, loading, inflight, toasts,
    \* the "users" table
    store

hookVars == <<user, hookLoading, checkUserPc, released, feedSeen>>
vars == <<user, hookLoading, checkUserPc, released, feedSeen,
          apiKey, discordId, loading, inflight, toasts, store>>

\* ------------------------------------------------------------- requests
SelectReq(i) == [op |-> "select", id |-> i, val |-> ""]
InsertReq(i, k) == [op |-> "insert", id |-> i, val |-> k]
UpdateReq(i, v) == [op |-> "update", id |-> i, val |-> v]

Pending(op) == {r \in BagToSet(inflight) : r.op = op}
Issue(r) == inflight' = inflight (+) SetToBag({r})
Settle(r) == inflight' = inflight (-) SetToBag({r})
HasRoom == BagCardinality(inflight) < MaxInflight

\* ---------------------------------------------------------------- toasts
ToastFetchError == [title |-> "Error fetching user data", variant |-> "destructive"]
ToastUpdateError == [title |-> "Error", variant |-> "destructive"]
ToastUpdated == [title |-> "Discord ID Updated", variant |-> "default"]
ToastCopied == [title |-> "API Key Copied", variant |-> "default"]

\* x || ""
OrEmpty(x) == IF x = Null THEN "" ELSE x

\* rows of "users" with user_id = i
Matches(i) == {rec \in store : rec.user_id = i}

\* the step calls toast() not at all
Quiet == toasts' = <<>>

Init ==
    /\ user = Null
    /\ hookLoading = TRUE
    /\ checkUserPc = "pending"
    /\ released = FALSE
    /\ feedSeen = FALSE
    /\ apiKey = ""
    /\ discordId = ""
    /\ loading = TRUE
    /\ inflight = EmptyBag
    /\ toasts = <<>>
    /\ store = {}

\* ------------------------------------------------------------- the page

\* the page shows the settings form (neither of the two Loading screens)
Rendered == ~released /\ user # Null /\ ~loading

\* getUserData up to its await, for the identity u of the new render
getUserData(u) ==
    IF u = Null
    THEN UNCHANGED <<loading, inflight>>
    ELSE loading' = TRUE /\ Issue(SelectReq(u))

\* the fetch effect, run when the hook delivers the user value u;
\* changed: u is a different object than the one of the previous render
FetchEffect(u, changed) ==
    IF released \/ ~changed \/ u = Null
    THEN UNCHANGED <<loading, inflight>>
    ELSE getUserData(u)

\* the effect is about to issue a request
EffectIssues(u, changed) == ~released /\ changed /\ u # Null

\* ------------------------------------------------------------- useUser

\* the onAuthStateChange callback, called with a session whose user is v
AuthStateChange(v, fresh) ==
    /\ ~released
    /\ EffectIssues(v, v # user \/ fresh) => HasRoom
    /\ user' = v
    /\ hookLoading' = FALSE
    /\ feedSeen' = TRUE
    /\ FetchEffect(v, v # user \/ fresh)
    /\ Quiet
    /\ UNCHANGED <<checkUserPc, released, apiKey, discordId, store>>

\* checkUser after its await: getUser() answered with data.user = v
\* (v = Null is the failure reported as a value)
CheckUserReturns(v) ==
    /\ checkUserPc = "pending"
    /\ EffectIssues(v, TRUE) => HasRoom
    /\ user' = v
    /\ hookLoading' = FALSE
    /\ checkUserPc' = "fulfilled"
    /\ FetchEffect(v, TRUE)
    /\ Quiet
    /\ UNCHANGED <<released, feedSeen, apiKey, discordId, store>>

\* checkUser when getUser() rejects: the finally block runs, nothing catches
CheckUserThrows ==
    /\ checkUserPc = "pending"
    /\ hookLoading' = FALSE
    /\ checkUserPc' = "rejected"
    /\ Quiet
    /\ UNCHANGED <<user, released, feedSeen, apiKey, discordId, loading, inflight, store>>

\* the effect cleanup: subscription.unsubscribe()
Release ==
    /\ ~released
    /\ released' = TRUE
    /\ Quiet
    /\ UNCHANGED <<user, hookLoading, checkUserPc, feedSeen,
                   apiKey, discordId, loading, inflight, store>>

\* ------------------------------------------------- the page's handlers

\* onChange of the Discord User ID input
SetDiscordId(v) ==
    /\ Rendered
    /\ v # discordId
    /\ discordId' = v
    /\ Quiet
    /\ UNCHANGED <<hookVars, apiKey, loading, inflight, store>>

\* the strings Math.random() has not produced yet
FreshKeys == Keys \ ({rec.api : rec \in store} \cup {r.val : r \in Pending("insert")})

\* generateApiKey up to its await; k is the random string
generateApiKey(k) ==
    /\ loading' = TRUE
    /\ IF loading \/ user = Null
       THEN UNCHANGED inflight
       ELSE Issue(InsertReq(user, k))

\* click on "Generate API Key" (shown while apiKey is empty)
ClickGenerate(k) ==
    /\ Rendered
    /\ apiKey = ""
    /\ k \in FreshKeys
    /\ HasRoom
    /\ generateApiKey(k)
    /\ Quiet
    /\ UNCHANGED <<hookVars, apiKey, discordId, store>>

\* click on the copy button (shown while apiKey is not empty)
copyApiKey ==
    /\ Rendered
    /\ apiKey # ""
    /\ toasts' = <<ToastCopied>>
    /\ UNCHANGED <<hookVars, apiKey, discordId, loading, inflight, store>>

\* updateDiscordId up to its await
updateDiscordId ==
    IF user = Null
    THEN UNCHANGED inflight
    ELSE Issue(UpdateReq(user, discordId))

\* click on "Save"
ClickSave ==
    /\ Rendered
    /\ HasRoom
    /\ updateDiscordId
    /\ Quiet
    /\ UNCHANGED <<hookVars, apiKey, discordId, loading, store>>

\* ------------------------------------------- the responses of the store

\* mutant of SelectFailed: the error branch resets the displayed fields
SelectFailed_Clears(r) ==
    /\ toasts' = <<ToastFetchError>>
    /\ loading' = FALSE
    /\ apiKey' = ""
    /\ discordId' = ""

\* getUserData after its await, userError set
SelectFailed(r) ==
    /\ toasts' = <<ToastFetchError>>
    /\ loading' = FALSE
    /\ UNCHANGED <<apiKey, discordId>>

\* getUserData after its await, no error; first is userData[0]
SelectSucceeded(r, first) ==
    /\ IF Matches(r.id) # {}
       THEN /\ apiKey' = OrEmpty(first.api)
            /\ discordId' = OrEmpty(first.discord_id)
       ELSE UNCHANGED <<apiKey, discordId>>
    /\ toasts' = <<>>
    /\ loading' = FALSE

SelectReturns(r, err) ==
    /\ r \in Pending("select")
    /\ Settle(r)
    /\ IF err
       THEN SelectFailed(r)
       ELSE \E first \in Matches(r.id) \cup {[user_id |-> r.id, api |-> Null, discord_id |-> Null]} :
              /\ Matches(r.id) # {} => first \in Matches(r.id)
              /\ SelectSucceeded(r, first)
    /\ UNCHANGED <<hookVars, store>>

\* mutant of InsertFailed: setLoading(false) only runs when a row came back
InsertFailed_KeepsLoading(r) ==
    UNCHANGED <<loading, apiKey, store>>

\* generateApiKey after its await, data = null (the error is not read)
InsertFailed(r) ==
    /\ loading' = FALSE
    /\ UNCHANGED <<apiKey, store>>

\* generateApiKey after its await, data[0] is the inserted row
InsertSucceeded(r) ==
    /\ store' = store \cup {[user_id |-> r.id, api |-> r.val, discord_id |-> Null]}
    /\ apiKey' = r.val
    /\ loading' = FALSE

InsertReturns(r, err) ==
    /\ r \in Pending("insert")
    /\ Settle(r)
    /\ toasts' = <<>>
    /\ IF err THEN InsertFailed(r) ELSE InsertSucceeded(r)
    /\ UNCHANGED <<hookVars, discordId>>

\* .update({discord_id}).eq("user_id", id) on the table
UpdateRows(i, v) ==
    {IF rec.user_id = i THEN [rec EXCEPT !.discord_id = v] ELSE rec : rec \in store}

\* updateDiscordId after its await, error set: thrown and caught
UpdateFailed(r) ==
    /\ toasts' = <<ToastUpdateError>>
    /\ UNCHANGED store

\* updateDiscordId after its await, no error
UpdateSucceeded(r) ==
    /\ store' = UpdateRows(r.id, r.val)
    /\ toasts' = <<ToastUpdated>>

UpdateReturns(r, err) ==
    /\ r \in Pending("update")
    /\ Settle(r)
    /\ IF err THEN UpdateFailed(r) ELSE UpdateSucceeded(r)
    /\ UNCHANGED <<hookVars, apiKey, discordId, loading>>

\* the store answers one request in flight, with a result or with an error
SelectAnswered == \E r \in BagToSet(inflight), err \in BOOLEAN : SelectReturns(r, err)
InsertAnswered == \E r \in BagToSet(inflight), err \in BOOLEAN : InsertReturns(r, err)
UpdateAnswered == \E r \in BagToSet(inflight), err \in BOOLEAN : UpdateReturns(r, err)

\* ------------------------------------------------------- specification
Next ==
    \/ \E v \in Ids \cup {Null}, fresh \in BOOLEAN : AuthStateChange(v, fresh)
    \/ \E v \in Ids \cup {Null} : CheckUserReturns(v)
    \/ CheckUserThrows
    \/ Release
    \/ \E v \in DiscordIds : SetDiscordId(v)
    \/ \E k \in Keys : ClickGenerate(k)
    \/ copyApiKey
    \/ ClickSave
    \/ SelectAnswered
    \/ InsertAnswered
    \/ UpdateAnswered

Spec == Init /\ [][Next]_vars

\* the store answers every request with a result or an error
Fairness ==
    /\ WF_vars(SelectAnswered)
    /\ WF_vars(InsertAnswered)
    /\ WF_vars(UpdateAnswered)

FairSpec == Spec /\ Fairness


\* --------------------------------------------------------------- claims
AnyUser == Ids \cup {Null}

\* the requests in flight that carry identity i, as a bag
InflightFor(i) ==
    [r \in {x \in BagToSet(inflight) : x.id = i} |-> inflight[r]]

\* a request whose response handler ends with setLoading(false) is in flight
PendingLoad(b) == \E r \in BagToSet(b) : r.op \in {"select", "insert"}

\* the step handles the error response of request r
FailedResponse(r) ==
    SelectReturns(r, TRUE) \/ InsertReturns(r, TRUE) \/ UpdateReturns(r, TRUE)

\* C1: a getUser() result that arrives after a change-feed event is
\* discarded (user keeps the feed's value); with no feed event so far the
\* state becomes the one-shot result.
C1_FeedWins ==
    [][\A v \in AnyUser :
         CheckUserReturns(v) => (IF feedSeen THEN user' = user ELSE user' = v)]_vars

\* C2: once the effect cleanup has run, neither setUser nor setLoading
\* writes the session state again.
C2_NoUpdateAfterRelease ==
    [][released => (user' = user /\ hookLoading' = hookLoading)]_vars

\* C3: a failed getUser() (failure as a value, or a rejection) with no
\* change-feed event seen ends with user = null, loading = false and
\* checkUser's promise not rejected.
C3_FailOpen ==
    [][((CheckUserReturns(Null) \/ CheckUserThrows) /\ ~feedSeen)
         => (user' = Null /\ hookLoading' = FALSE /\ checkUserPc' # "rejected")]_vars

\* C4: after a fetch for identity i that returns no error, apiKey and
\* discordId are empty if the table has no row for i, and otherwise are the
\* api and discord_id of the first returned row.
C4_FetchShowsStored ==
    [][\A r \in Pending("select") :
         SelectReturns(r, FALSE) =>
           IF Matches(r.id) = {}
           THEN apiKey' = "" /\ discordId' = ""
           ELSE \E rec \in Matches(r.id) :
                  /\ apiKey' = OrEmpty(rec.api)
                  /\ discordId' = OrEmpty(rec.discord_id)]_vars

\* C5: the "Discord ID Updated" toast for identity i and value v is shown
\* only if the table then holds a row of i whose discord_id is v.
C5_SuccessMeansStored ==
    [][\A r \in Pending("update") :
         (UpdateReturns(r, FALSE) /\ toasts' = <<ToastUpdated>>) =>
           \E rec \in store' : rec.user_id = r.id /\ rec.discord_id = r.val]_vars

\* C6: every failed store operation (fetch, insert, update) emits exactly
\* one destructive toast and no other toast.
C6_FailureToast ==
    [][\A r \in BagToSet(inflight) :
         FailedResponse(r) =>
           (Len(toasts') = 1 /\ toasts'[1].variant = "destructive")]_vars

\* C7: a failed store operation (fetch, insert, update) leaves apiKey and
\* discordId as they were, and does not leave loading at true without a
\* fetch or insert in flight.
C7_FailureKeepsDisplay ==
    [][\A r \in BagToSet(inflight) :
         FailedResponse(r) =>
           /\ apiKey' = apiKey
           /\ discordId' = discordId
           /\ r.op \in {"select", "insert"} => loading' = FALSE
           /\ loading' => PendingLoad(inflight')]_vars

\* C7 witness: an error toast of a failed fetch is up while the page
\* still displays a key and a chat id.
C7_Witness ==
    /\ toasts = <<ToastFetchError>>
    /\ apiKey # ""
    /\ discordId # ""
    /\ ~loading

\* C8: at most one store request for the current identity is in flight.
C8_OneRequestInFlight ==
    user # Null => BagCardinality(InflightFor(user)) <= 1

\* C9: the form rendered for identity i shows no API key, or the api of a
\* row stored under user_id = i.
C9_KeyBelongsToUser ==
    Rendered => (apiKey = "" \/ \E rec \in Matches(user) : rec.api = apiKey)

\* C10: while the page is mounted for an authenticated identity, loading
\* is true only with a fetch or an insert in flight, and it becomes false
\* eventually.
C10_LoadingEnds ==
    /\ []((~released /\ user # Null /\ loading) => PendingLoad(inflight))
    /\ ((~released /\ user # Null) ~> (~loading \/ released))

\* C10 witness: the form is rendered again after generateApiKey stored a key
\* for the identity.
C10_Witness ==
    /\ Rendered
    /\ apiKey # ""
    /\ \E rec \in Matches(user) : rec.api = apiKey /\ rec.discord_id = Null
    /\ inflight = EmptyBag
====
